---- MODULE Spec2Model ----
(***************************************************************************)
(* winarg: the Windows command-line parser of src/winarg/src/lib.rs.       *)
(*                                                                         *)
(* The command line is a null-terminated buffer of 16-bit units.  One      *)
(* state machine (ParseArgs) is driven at three granularities: per unit    *)
(* (ParseArgs::next), per token (Parser::next) and per argument            *)
(* (ArgsNative::next).  Every Rust function is an operator that takes the  *)
(* buffer and the state it mutates and returns the new state with the      *)
(* returned value; the public iterators are the actions.                   *)
(***************************************************************************)
EXTENDS Integers, Sequences, FiniteSets, TLC

(* ---------------- program constants (lib.rs:72-75) ---------------- *)
SPACE == 32
TAB == 9
QUOTE == 34
SLASH == 92

\* Width of u16: counters of EscapeIter::new and WideIter::max_len wrap here.
U16 == 65536

\* `+= 1` on a u16: the value a build without overflow checks stores, and
\* whether a build with overflow checks panics instead.
inc_u16(n) == (n + 1) % U16

overflows(n) == n + 1 >= U16

(* ---------------- bounds of the model ---------------- *)
\* Longest command line (units before the terminating zero).
MaxLen == 5

\* The units a command line is drawn from: the alphabet of the exhaustive
\* generator, "\\a\" \t" (backslash, 'a', quote, SPACE, TAB).
Alphabet == {SLASH, 97, QUOTE, SPACE, TAB}

\* Option::None of an Option<u16>.
None == -1

\* Option<EscapeIter> is a sequence of length 0 (None) or 1 (Some).
NoEscape == << >>

(* ---------------- WideIter (lib.rs:352-402) ---------------- *)
\* WideIter::peek: the unit under the cursor, None on the terminating zero.
peek(buf, ptr) == IF buf[ptr] = 0 THEN None ELSE buf[ptr]

\* WideIter::next: peek()? then advance the pointer by one.
WideIter_next(buf, ptr) ==
    IF peek(buf, ptr) = None
    THEN [ptr |-> ptr, out |-> None]
    ELSE [ptr |-> ptr + 1, out |-> peek(buf, ptr)]

\* The test of WideIter::skip_whitespace's loop.
is_whitespace(w) == w = SPACE \/ w = TAB

\* skip_whitespace with `if` for `while`: at most one unit is skipped.
skip_whitespace_once(buf, ptr) ==
    IF is_whitespace(peek(buf, ptr)) THEN WideIter_next(buf, ptr).ptr ELSE ptr

RECURSIVE skip_whitespace(_, _)
\* WideIter::skip_whitespace: advance while peek is SPACE or TAB.
skip_whitespace(buf, ptr) ==
    IF is_whitespace(peek(buf, ptr))
    THEN skip_whitespace(buf, WideIter_next(buf, ptr).ptr)
    ELSE ptr

RECURSIVE max_len_loop(_, _, _)
\* The loop of WideIter::max_len: len += 1 (u16) while next() is Some.
max_len_loop(buf, ptr, len) ==
    IF WideIter_next(buf, ptr).out = None
    THEN len
    ELSE max_len_loop(buf, WideIter_next(buf, ptr).ptr, inc_u16(len))

\* WideIter::max_len on a copy of the cursor.
max_len(buf, ptr) == max_len_loop(buf, ptr, 0)

\* WideIter::as_slice: the units from the cursor up to the terminating zero.
as_slice(buf, ptr) ==
    LET end == CHOOSE i \in ptr..Len(buf) :
                   buf[i] = 0 /\ \A j \in ptr..(i - 1) : buf[j] # 0
    IN SubSeq(buf, ptr, end - 1)

(* ---------------- EscapeIter (lib.rs:411-461) ---------------- *)
\* OddEven::is_odd for u16.
is_odd(n) == n % 2 = 1

\* EscapeIter_quote without `counter /= 2`: the backslashes are not halved.
EscapeIter_quote_unhalved(buf, ptr, counter) ==
    [it  |-> [counter |-> counter,
              mode    |-> IF is_odd(counter) THEN "LiteralQuote" ELSE "Unescaped"],
     ptr |-> IF is_odd(counter) THEN WideIter_next(buf, ptr).ptr ELSE ptr]

\* The Some(QUOTE) arm of EscapeIter::new: an odd counter consumes the quote
\* and makes it literal; the counter is halved either way.
EscapeIter_quote(buf, ptr, counter) ==
    [it  |-> [counter |-> counter \div 2,
              mode    |-> IF is_odd(counter) THEN "LiteralQuote" ELSE "Unescaped"],
     ptr |-> IF is_odd(counter) THEN WideIter_next(buf, ptr).ptr ELSE ptr]

RECURSIVE EscapeIter_loop(_, _, _)
\* The loop of EscapeIter::new.
EscapeIter_loop(buf, ptr, counter) ==
    IF peek(buf, ptr) = SLASH
    THEN EscapeIter_loop(buf, WideIter_next(buf, ptr).ptr, inc_u16(counter))
    ELSE IF peek(buf, ptr) = QUOTE
         THEN EscapeIter_quote(buf, ptr, counter)
         ELSE [it |-> [counter |-> counter, mode |-> "Unescaped"], ptr |-> ptr]

\* EscapeIter_new that forgets the backslash ParseArgs::next consumed.
EscapeIter_new_from_zero(buf, ptr) == EscapeIter_loop(buf, ptr, 0)

\* EscapeIter::new: one backslash is already consumed (counter starts at 1).
EscapeIter_new(buf, ptr) == EscapeIter_loop(buf, ptr, 1)

\* EscapeIter::next: drain the backslashes, then the literal quote.
EscapeIter_next(it) ==
    IF it.counter >= 1
    THEN [it |-> [it EXCEPT !.counter = it.counter - 1], out |-> SLASH]
    ELSE IF it.mode = "LiteralQuote"
         THEN [it |-> [it EXCEPT !.mode = "Unescaped"], out |-> QUOTE]
         ELSE [it |-> it, out |-> None]

(* ---------------- ParseArgs (lib.rs:477-539) ---------------- *)
\* ParseArgs::new.
ParseArgs_new(arg, is_arg0) ==
    [cursor |-> arg, quote_mode |-> FALSE, escape_iter |-> NoEscape,
     is_arg0 |-> is_arg0]

\* ParseArgs::from_env: the start of the command line, zeroth argument.
ParseArgs_from_env == ParseArgs_new(1, TRUE)

\* Toggle::toggle for bool.
toggle(v) == ~v

\* ends_argument that knows SPACE only.
ends_argument_space_only(w, s) == w = SPACE /\ ~s.quote_mode

\* Whitespace that ends the argument inside quotes too.
ends_argument_any_mode(w, s) == w = SPACE \/ w = TAB

\* Guard of the first match arm: whitespace outside quotes ends the argument.
ends_argument(w, s) == (w = SPACE \/ w = TAB) /\ ~s.quote_mode

\* starts_escape without `if not(self.is_arg0)`.
starts_escape_in_arg0(w, s) == w = SLASH

\* Guard of the second match arm: a backslash starts an escape run.
starts_escape(w, s) == w = SLASH /\ ~s.is_arg0

\* is_doubled_quote without the quote_mode test: a pair of quotes outside
\* quotes yields a literal quote too.
is_doubled_quote_any_mode(buf, s) ==
    ~s.is_arg0 /\ peek(buf, s.cursor) = QUOTE

\* The condition of the QUOTE arm, evaluated after the quote is consumed.
is_doubled_quote(buf, s) ==
    ~s.is_arg0 /\ s.quote_mode /\ peek(buf, s.cursor) = QUOTE

\* The quote arm with a doubled quote that also leaves quote mode.
quote_arm_doubled_leaves(buf, s) ==
    LET t == [s EXCEPT !.cursor = WideIter_next(buf, s.cursor).ptr]
    IN IF is_doubled_quote(buf, t)
       THEN [s    |-> [t EXCEPT !.cursor = WideIter_next(buf, t.cursor).ptr,
                                !.quote_mode = FALSE],
             out  |-> WideIter_next(buf, t.cursor).out,
             done |-> TRUE]
       ELSE [s    |-> [t EXCEPT !.quote_mode = toggle(t.quote_mode)],
             out  |-> None,
             done |-> FALSE]

\* The QUOTE arm up to its return or loop: done = TRUE where it returns.
quote_arm(buf, s) ==
    LET t == [s EXCEPT !.cursor = WideIter_next(buf, s.cursor).ptr]
    IN IF is_doubled_quote(buf, t)
       THEN [s    |-> [t EXCEPT !.cursor = WideIter_next(buf, t.cursor).ptr],
             out  |-> WideIter_next(buf, t.cursor).out,
             done |-> TRUE]
       ELSE [s    |-> [t EXCEPT !.quote_mode = toggle(t.quote_mode)],
             out  |-> None,
             done |-> FALSE]

\* The SLASH arm: consume the backslash and build the escape run.
slash_arm(buf, s) ==
    LET e == EscapeIter_new(buf, WideIter_next(buf, s.cursor).ptr)
    IN [s EXCEPT !.cursor = e.ptr, !.escape_iter = << e.it >>]

\* ParseArgs::next without `Some(w) => return Some(w)`: the unit taken off
\* the escape run is lost and the cursor is read in the same step.
RECURSIVE ParseArgs_next_drain_discarded(_, _)
ParseArgs_next_drain_discarded(buf, s) ==
    LET t == IF s.escape_iter # NoEscape /\ EscapeIter_next(s.escape_iter[1]).out # None
             THEN [s EXCEPT !.escape_iter = << EscapeIter_next(s.escape_iter[1]).it >>]
             ELSE [s EXCEPT !.escape_iter = NoEscape]
        w == peek(buf, t.cursor)
    IN IF w = None THEN [s |-> t, out |-> None]
       ELSE IF ends_argument(w, t) THEN [s |-> t, out |-> None]
       ELSE IF starts_escape(w, t) THEN ParseArgs_next_drain_discarded(buf, slash_arm(buf, t))
       ELSE IF w = QUOTE
            THEN IF quote_arm(buf, t).done
                 THEN [s |-> quote_arm(buf, t).s, out |-> quote_arm(buf, t).out]
                 ELSE ParseArgs_next_drain_discarded(buf, quote_arm(buf, t).s)
       ELSE [s   |-> [t EXCEPT !.cursor = WideIter_next(buf, t.cursor).ptr],
             out |-> WideIter_next(buf, t.cursor).out]

RECURSIVE ParseArgs_next(_, _)
\* ParseArgs::next: the whole loop, up to the return.
ParseArgs_next(buf, s) ==
    IF s.escape_iter # NoEscape /\ EscapeIter_next(s.escape_iter[1]).out # None
    THEN [s   |-> [s EXCEPT !.escape_iter = << EscapeIter_next(s.escape_iter[1]).it >>],
          out |-> EscapeIter_next(s.escape_iter[1]).out]
    ELSE LET t == [s EXCEPT !.escape_iter = NoEscape]
             w == peek(buf, t.cursor)
         IN IF w = None THEN [s |-> t, out |-> None]
            ELSE IF ends_argument(w, t) THEN [s |-> t, out |-> None]
            ELSE IF starts_escape(w, t) THEN ParseArgs_next(buf, slash_arm(buf, t))
            ELSE IF w = QUOTE
                 THEN IF quote_arm(buf, t).done
                      THEN [s |-> quote_arm(buf, t).s, out |-> quote_arm(buf, t).out]
                      ELSE ParseArgs_next(buf, quote_arm(buf, t).s)
            ELSE [s   |-> [t EXCEPT !.cursor = WideIter_next(buf, t.cursor).ptr],
                  out |-> WideIter_next(buf, t.cursor).out]

RECURSIVE drain_arg(_, _)
\* `while self.next().is_some() {}` of move_to_next_arg.
drain_arg(buf, s) ==
    IF ParseArgs_next(buf, s).out = None
    THEN ParseArgs_next(buf, s).s
    ELSE drain_arg(buf, ParseArgs_next(buf, s).s)

\* move_to_next_arg without `self.is_arg0 = false`.
move_to_next_arg_keeps_arg0(buf, s) ==
    LET t == drain_arg(buf, s)
    IN [t EXCEPT !.cursor = skip_whitespace(buf, t.cursor)]

\* move_to_next_arg that leaves quote mode before it fast-forwards.
move_to_next_arg_resets_quote(buf, s) ==
    LET t == drain_arg(buf, [s EXCEPT !.quote_mode = FALSE])
    IN [t EXCEPT !.cursor = skip_whitespace(buf, t.cursor), !.is_arg0 = FALSE]

\* move_to_next_arg without `self.cursor.skip_whitespace()`.
move_to_next_arg_no_skip(buf, s) ==
    LET t == drain_arg(buf, s)
    IN [t EXCEPT !.is_arg0 = FALSE]

\* ParseArgs::move_to_next_arg.
move_to_next_arg(buf, s) ==
    LET t == drain_arg(buf, s)
    IN [t EXCEPT !.cursor = skip_whitespace(buf, t.cursor), !.is_arg0 = FALSE]

(* ---------------- Token and Parser (lib.rs:77-137) ---------------- *)
Unit(w) == [tag |-> "Unit", unit |-> w]
NextArg == [tag |-> "NextArg"]
\* Option::None of an Option<Token>.
NoToken == [tag |-> "None"]

\* Token::as_u16.
as_u16(t) == IF t.tag = "Unit" THEN t.unit ELSE 0

\* Token::is_next_arg.
is_next_arg(t) == t = NextArg

\* The test of Parser::next's or_else closure after move_to_next_arg.
at_end(buf, s) == peek(buf, s.cursor) = None

\* Parser::next that returns None at the end of every argument and goes on
\* with the next argument when called again.
Parser_next_stops_between_args(buf, s) ==
    LET r == ParseArgs_next(buf, s)
        m == move_to_next_arg(buf, r.s)
    IN IF r.out # None
       THEN [s |-> r.s, out |-> Unit(r.out)]
       ELSE [s |-> m, out |-> NoToken]

\* Parser::next that marks the end of an argument with a zero unit.
Parser_next_zero_unit(buf, s) ==
    LET r == ParseArgs_next(buf, s)
        m == move_to_next_arg(buf, r.s)
    IN IF r.out # None
       THEN [s |-> r.s, out |-> Unit(r.out)]
       ELSE [s |-> m, out |-> IF at_end(buf, m) THEN NoToken ELSE Unit(0)]

\* Parser::next that tests for the end before move_to_next_arg has skipped
\* the whitespace.
Parser_next_peek_before_skip(buf, s) ==
    LET r == ParseArgs_next(buf, s)
        m == move_to_next_arg(buf, r.s)
    IN IF r.out # None
       THEN [s |-> r.s, out |-> Unit(r.out)]
       ELSE [s |-> m, out |-> IF at_end(buf, r.s) THEN NoToken ELSE NextArg]

\* Parser::next.
Parser_next(buf, s) ==
    LET r == ParseArgs_next(buf, s)
        m == move_to_next_arg(buf, r.s)
    IN IF r.out # None
       THEN [s |-> r.s, out |-> Unit(r.out)]
       ELSE [s |-> m, out |-> IF at_end(buf, m) THEN NoToken ELSE NextArg]

\* Parser::size_hint: (0, Some(max_len)).
size_hint(buf, s) == [lower |-> 0, upper |-> max_len(buf, s.cursor)]

(* ---------------- Argument and ArgsNative (lib.rs:181-336) ---------------- *)
\* Option::None of an Option<Argument>.
NoArgument == [arg |-> 0, is_arg0 |-> FALSE]

\* ArgsNative::next that snapshots the cursor after moving on.
ArgsNative_next_snapshot_after_move(buf, s) ==
    LET m == move_to_next_arg(buf, s)
    IN IF peek(buf, s.cursor) = None
       THEN [s |-> s, out |-> NoArgument]
       ELSE [s |-> m, out |-> [arg |-> m.cursor, is_arg0 |-> s.is_arg0]]

\* ArgsNative::next that tests for the end after move_to_next_arg.
ArgsNative_next_end_after_move(buf, s) ==
    LET current == [arg |-> s.cursor, is_arg0 |-> s.is_arg0]
        m == move_to_next_arg(buf, s)
    IN IF peek(buf, m.cursor) = None
       THEN [s |-> m, out |-> NoArgument]
       ELSE [s |-> m, out |-> current]

\* ArgsNative::next.
ArgsNative_next(buf, s) ==
    LET current == [arg |-> s.cursor, is_arg0 |-> s.is_arg0]
    IN IF peek(buf, current.arg) = None
       THEN [s |-> s, out |-> NoArgument]
       ELSE [s |-> move_to_next_arg(buf, s), out |-> current]

RECURSIVE collect_units(_, _)
\* Collecting a ParseArgs iterator to its end.
collect_units(buf, s) ==
    IF ParseArgs_next(buf, s).out = None
    THEN << >>
    ELSE << ParseArgs_next(buf, s).out >> \o collect_units(buf, ParseArgs_next(buf, s).s)

\* utf16_units that drops the handle's is_arg0 and parses as from_env does.
utf16_units_as_arg0(buf, a) == collect_units(buf, ParseArgs_new(a.arg, TRUE))

\* Argument::utf16_units, collected.
utf16_units(buf, a) == collect_units(buf, ParseArgs_new(a.arg, a.is_arg0))

\* Argument::raw_arg.
raw_arg(buf, a) == as_slice(buf, a.arg)

\* char::REPLACEMENT_CHARACTER, U+FFFD.
REPLACEMENT_CHARACTER == 65533

\* A UTF-16 surrogate unit (0xD800..0xDFFF); the leading ones are below
\* 0xDC00, the trailing ones from 0xDC00 on.
is_surrogate(w) == w \in 55296..57343

is_leading(w) == w \in 55296..56319

is_trailing(w) == w \in 56320..57343

\* core::char::decode_utf16: a unit that is no surrogate decodes to itself, a
\* leading surrogate followed by a trailing one to the scalar of the pair,
\* any other surrogate to an error that holds the unit; the unit read after
\* an unpaired leading surrogate is decoded next.
RECURSIVE decode_utf16(_)
decode_utf16(us) ==
    IF us = << >> THEN << >>
    ELSE IF ~is_surrogate(us[1])
         THEN << [ok |-> TRUE, v |-> us[1]] >> \o decode_utf16(Tail(us))
    ELSE IF is_leading(us[1]) /\ Len(us) >= 2 /\ is_trailing(us[2])
         THEN << [ok |-> TRUE,
                  v  |-> 65536 + (us[1] - 55296) * 1024 + (us[2] - 56320)] >>
              \o decode_utf16(Tail(Tail(us)))
    ELSE << [ok |-> FALSE, v |-> us[1]] >> \o decode_utf16(Tail(us))

\* scalars that keeps the unpaired surrogate.
scalars_unreplaced(buf, a) ==
    LET d == decode_utf16(utf16_units(buf, a))
    IN [i \in 1..Len(d) |-> d[i].v]

\* Argument::scalars: unwrap_or(REPLACEMENT_CHARACTER).
scalars(buf, a) ==
    LET d == decode_utf16(utf16_units(buf, a))
    IN [i \in 1..Len(d) |-> IF d[i].ok THEN d[i].v ELSE REPLACEMENT_CHARACTER]

\* Argument::code_points: the scalar, or the unpaired surrogate widened.
code_points(buf, a) ==
    LET d == decode_utf16(utf16_units(buf, a))
    IN [i \in 1..Len(d) |-> d[i].v]

(* ---------------- whole runs of the public iterators ---------------- *)
RECURSIVE Parser_collect(_, _)
\* Collecting a Parser to its end (the `collect()` of lib.rs:106).
Parser_collect(buf, s) ==
    IF Parser_next(buf, s).out = NoToken
    THEN << >>
    ELSE << Parser_next(buf, s).out >> \o Parser_collect(buf, Parser_next(buf, s).s)

RECURSIVE Parser_final(_, _)
\* The ParseArgs a Parser is left with when it has returned None.
Parser_final(buf, s) ==
    IF Parser_next(buf, s).out = NoToken
    THEN Parser_next(buf, s).s
    ELSE Parser_final(buf, Parser_next(buf, s).s)

\* null_separated_list_wide: Parser().map(|t| t.as_u16()).
null_separated_list_wide(toks) == [i \in 1..Len(toks) |-> as_u16(toks[i])]

\* The caller's loop that skips the zeroth argument: the tokens left after
\* the first NextArg, none when the stream holds no NextArg.
skip_zeroth(toks) ==
    IF \A i \in 1..Len(toks) : ~is_next_arg(toks[i])
    THEN << >>
    ELSE LET k == CHOOSE i \in 1..Len(toks) :
                      is_next_arg(toks[i]) /\ \A j \in 1..(i - 1) : ~is_next_arg(toks[j])
         IN SubSeq(toks, k + 1, Len(toks))

RECURSIVE ArgsNative_collect(_, _)
\* Collecting an ArgsNative to its end (the `for arg in ArgsNative::from_env()`).
ArgsNative_collect(buf, s) ==
    IF ArgsNative_next(buf, s).out = NoArgument
    THEN << >>
    ELSE << ArgsNative_next(buf, s).out >>
         \o ArgsNative_collect(buf, ArgsNative_next(buf, s).s)

RECURSIVE split(_, _)
\* slice::split(|&w| w == sep): the pieces between separators; one empty
\* piece for an empty slice.
split(units, sep) ==
    IF \A i \in 1..Len(units) : units[i] # sep
    THEN << units >>
    ELSE LET k == CHOOSE i \in 1..Len(units) :
                      units[i] = sep /\ \A j \in 1..(i - 1) : units[j] # sep
         IN << SubSeq(units, 1, k - 1) >> \o split(SubSeq(units, k + 1, Len(units)), sep)

\* The parsed body of every handle, in order.
bodies(buf, hs) == [i \in 1..Len(hs) |-> utf16_units(buf, hs[i])]


(* ---------------- the state machine ---------------- *)
VARIABLES
    cmd,        \* the command-line buffer, terminating zero included
    parser,     \* Parser.iter
    tokens,     \* the tokens Parser::next has yielded, in order
    parserDone, \* Parser::next has returned None
    last,       \* the latest Parser::next call: ParseArgs and the number of
                \* tokens before it, and what its ParseArgs::next returned
    esc,        \* the escape run being drained: where its first backslash
                \* was read, the quote mode then, and the units it yielded
    args,       \* ArgsNative.next
    handles,    \* the Argument handles ArgsNative::next has yielded
    argsDone,   \* ArgsNative::next has returned None
    count       \* a counting loop on a long buffer, one iteration a step:
                \* the buffer's shape, the build, the cursor, the counter

vars == << cmd, parser, tokens, parserDone, last, esc, args, handles, argsDone,
           count >>

\* Every null-terminated buffer over the alphabet with at most MaxLen units.
CommandLines ==
    UNION { { [i \in 1..(n + 1) |-> IF i = n + 1 THEN 0 ELSE body[i]] :
              body \in [1..n -> Alphabet] } : n \in 0..MaxLen }

NoRun == [start |-> 0, qm |-> FALSE, out |-> << >>]

\* No counting loop under way.
NoCount ==
    [job |-> "none", n |-> 0, quoted |-> FALSE, build |-> "release",
     ptr |-> 1, counter |-> 0, mode |-> "Unescaped", pc |-> "done"]

Init ==
    /\ cmd \in CommandLines
    /\ parser = ParseArgs_from_env
    /\ tokens = << >>
    /\ parserDone = FALSE
    /\ last = [pre |-> ParseArgs_from_env, ntok |-> 0, called |-> FALSE,
               step |-> [s |-> ParseArgs_from_env, out |-> None]]
    /\ esc = NoRun
    /\ args = ParseArgs_from_env
    /\ handles = << >>
    /\ argsDone = FALSE
    /\ count = NoCount

\* A pending escape run still has a unit to yield.
pending(s) ==
    s.escape_iter # NoEscape /\ EscapeIter_next(s.escape_iter[1]).out # None

\* The first backslash at or after position p.
first_slash(buf, p) ==
    CHOOSE i \in p..Len(buf) : buf[i] = SLASH /\ \A j \in p..(i - 1) : buf[j] # SLASH

\* The record of the escape run after a ParseArgs::next from pre to step.s.
\* A step that builds a run passes only mode-toggling quotes before its first
\* backslash, so the quote mode there is pre's, toggled once per quote.
track_run(buf, pre, step, old) ==
    IF step.s.escape_iter = NoEscape THEN NoRun
    ELSE IF pending(pre) THEN [old EXCEPT !.out = Append(old.out, step.out)]
    ELSE [start |-> first_slash(buf, pre.cursor),
          qm    |-> IF is_odd(first_slash(buf, pre.cursor) - pre.cursor)
                    THEN ~pre.quote_mode ELSE pre.quote_mode,
          out   |-> << step.out >>]

\* One call of Parser::next.
ParserNext ==
    LET r == Parser_next(cmd, parser)
        step == ParseArgs_next(cmd, parser)
    IN /\ parser' = r.s
       /\ tokens' = IF r.out = NoToken THEN tokens ELSE Append(tokens, r.out)
       /\ parserDone' = (r.out = NoToken)
       /\ last' = [pre |-> parser, ntok |-> Len(tokens), called |-> TRUE, step |-> step]
       /\ esc' = track_run(cmd, parser, step, esc)
       /\ UNCHANGED << cmd, args, handles, argsDone, count >>

\* One call of ArgsNative::next.
ArgsNativeNext ==
    LET r == ArgsNative_next(cmd, args)
    IN /\ args' = r.s
       /\ handles' = IF r.out = NoArgument THEN handles ELSE Append(handles, r.out)
       /\ argsDone' = (r.out = NoArgument)
       /\ UNCHANGED << cmd, parser, tokens, parserDone, last, esc, count >>

Next == ParserNext \/ ArgsNativeNext

Spec == Init /\ [][Next]_vars

\* Command lines with surrogates: the two units of U+1F605 (tests.rs:44),
\* which also occur unpaired and in the wrong order.
MaxWideLen == 4

WideAlphabet == {SLASH, 97, QUOTE, SPACE, 55357, 56837}

WideCommandLines ==
    UNION { { [i \in 1..(n + 1) |-> IF i = n + 1 THEN 0 ELSE body[i]] :
              body \in [1..n -> WideAlphabet] } : n \in 0..MaxWideLen }

InitWide ==
    /\ cmd \in WideCommandLines
    /\ parser = ParseArgs_from_env
    /\ tokens = << >>
    /\ parserDone = FALSE
    /\ last = [pre |-> ParseArgs_from_env, ntok |-> 0, called |-> FALSE,
               step |-> [s |-> ParseArgs_from_env, out |-> None]]
    /\ esc = NoRun
    /\ args = ParseArgs_from_env
    /\ handles = << >>
    /\ argsDone = FALSE
    /\ count = NoCount

SpecWide == InitWide /\ [][Next]_vars

\* Long buffers: a run of LongRun backslashes, a body of LongRun units, and
\* the same with one less.
LongRun == 65536

RunLengths == {LongRun - 1, LongRun}

\* `counter += 1` panics in a build with overflow checks (the default of the
\* dev profile) and wraps in one without (the default of the release profile).
Builds == {"debug", "release"}

\* The long buffer of a counting loop.  For "slashes": SPACE (an empty zeroth
\* argument), n backslashes, a quote if quoted, the terminating zero.  For
\* "len": n units `a` and the terminating zero.
LongLine(c) ==
    IF c.job = "slashes"
    THEN [i \in 1..(c.n + 3) |->
              IF i = 1 THEN SPACE
              ELSE IF i <= c.n + 1 THEN SLASH
              ELSE IF c.quoted /\ i = c.n + 2 THEN QUOTE
              ELSE 0]
    ELSE [i \in 1..(c.n + 1) |-> IF i <= c.n THEN 97 ELSE 0]

\* EscapeIter::new is entered with the cursor behind the first backslash of
\* the argument after the empty zeroth one and counter = 1; max_len is
\* entered by size_hint on the new Parser with len = 0.  The buffer is
\* LongLine(count), kept by its shape; cmd is not read.
InitCount ==
    /\ cmd = << 0 >>
    /\ parser = ParseArgs_from_env
    /\ tokens = << >>
    /\ parserDone = FALSE
    /\ last = [pre |-> ParseArgs_from_env, ntok |-> 0, called |-> FALSE,
               step |-> [s |-> ParseArgs_from_env, out |-> None]]
    /\ esc = NoRun
    /\ args = ParseArgs_from_env
    /\ handles = << >>
    /\ argsDone = FALSE
    /\ \E n \in RunLengths, b \in Builds :
           \/ \E q \in BOOLEAN :
                  count = [job |-> "slashes", n |-> n, quoted |-> q, build |-> b,
                           ptr |-> 3, counter |-> 1, mode |-> "Unescaped",
                           pc |-> "loop"]
           \/ count = [job |-> "len", n |-> n, quoted |-> FALSE, build |-> b,
                       ptr |-> 1, counter |-> 0, mode |-> "Unescaped",
                       pc |-> "loop"]

\* One iteration of the loop of EscapeIter::new.
EscapeIterNewStep ==
    /\ count.job = "slashes"
    /\ count.pc = "loop"
    /\ LET buf == LongLine(count)
           q == EscapeIter_quote(buf, count.ptr, count.counter)
       IN count' =
              IF peek(buf, count.ptr) = SLASH
              THEN IF overflows(count.counter) /\ count.build = "debug"
                   THEN [count EXCEPT !.pc = "panic"]
                   ELSE [count EXCEPT !.counter = inc_u16(@),
                                      !.ptr = WideIter_next(buf, @).ptr]
              ELSE IF peek(buf, count.ptr) = QUOTE
              THEN [count EXCEPT !.counter = q.it.counter, !.mode = q.it.mode,
                                 !.ptr = q.ptr, !.pc = "done"]
              ELSE [count EXCEPT !.pc = "done"]
    /\ UNCHANGED << cmd, parser, tokens, parserDone, last, esc, args, handles,
                    argsDone >>

\* One iteration of the loop of WideIter::max_len.
MaxLenStep ==
    /\ count.job = "len"
    /\ count.pc = "loop"
    /\ LET buf == LongLine(count)
           r == WideIter_next(buf, count.ptr)
       IN count' =
              IF r.out = None
              THEN [count EXCEPT !.pc = "done"]
              ELSE IF overflows(count.counter) /\ count.build = "debug"
              THEN [count EXCEPT !.ptr = r.ptr, !.pc = "panic"]
              ELSE [count EXCEPT !.ptr = r.ptr, !.counter = inc_u16(@)]
    /\ UNCHANGED << cmd, parser, tokens, parserDone, last, esc, args, handles,
                    argsDone >>

NextCount == EscapeIterNewStep \/ MaxLenStep

SpecCount == InitCount /\ [][NextCount]_vars

(* ======================= properties ======================= *)
\* k backslashes.
Slashes(k) == [i \in 1..k |-> SLASH]

RECURSIVE RunLen(_, _)
\* The number of consecutive backslashes of the buffer from position p on.
RunLen(buf, p) == IF buf[p] = SLASH THEN 1 + RunLen(buf, p + 1) ELSE 0

\* What the pending escape run of the parser has still to yield.
Undrained ==
    LET e == parser.escape_iter[1]
    IN Slashes(e.counter) \o (IF e.mode = "LiteralQuote" THEN << QUOTE >> ELSE << >>)

\* The last k tokens Parser has yielded.
LastTokens(k) == SubSeq(tokens, Len(tokens) - k + 1, Len(tokens))

Units(us) == [i \in 1..Len(us) |-> Unit(us[i])]

\* C1: outside the zeroth argument a run of n >= 1 backslashes followed by a
\* quote yields n/2 backslashes when n is even and leaves the cursor on the
\* quote, which the next step handles as a quote; when n is odd it yields
\* floor(n/2) backslashes and then one literal quote, consumes the quote and
\* leaves quote mode as it was.  At every point of the drain the units
\* yielded so far followed by the units still pending are that sequence.
C1_EscapedQuoteRun ==
    esc # NoRun =>
        LET n == RunLen(cmd, esc.start)
        IN cmd[esc.start + n] = QUOTE =>
            /\ ~parser.is_arg0
            /\ esc.out \o Undrained =
                   Slashes(n \div 2) \o (IF n % 2 = 1 THEN << QUOTE >> ELSE << >>)
            /\ Len(esc.out) <= Len(tokens)
            /\ LastTokens(Len(esc.out)) = Units(esc.out)
            /\ parser.cursor = esc.start + n + (IF n % 2 = 1 THEN 1 ELSE 0)
            /\ parser.quote_mode = esc.qm

\* A run of three backslashes and a quote, drained: one backslash, then the quote.
C1_Witness ==
    /\ esc # NoRun
    /\ RunLen(cmd, esc.start) = 3
    /\ cmd[esc.start + 3] = QUOTE
    /\ esc.out = << SLASH, QUOTE >>
    /\ ~pending(parser)

\* The ParseArgs::next of the latest Parser::next read the cursor (no escape
\* run was pending) outside the zeroth argument.
ReadsCursor == last.called /\ ~pending(last.pre) /\ ~last.pre.is_arg0

\* C2: outside the zeroth argument, a quote read in quote mode and followed by
\* a quote is consumed with it, yields one literal quote and leaves quote
\* mode on; any other quote yields nothing and toggles quote mode, so the
\* step goes on from the unit after it with the mode toggled.
C2_DoubledQuote ==
    (ReadsCursor /\ cmd[last.pre.cursor] = QUOTE) =>
        LET p == last.pre
            c == p.cursor
            after == [p EXCEPT !.cursor = c + 1, !.quote_mode = ~p.quote_mode,
                               !.escape_iter = NoEscape]
        IN IF p.quote_mode /\ cmd[c + 1] = QUOTE
           THEN /\ last.step.out = QUOTE
                /\ last.step.s.cursor = c + 2
                /\ last.step.s.quote_mode
                /\ tokens = Append(SubSeq(tokens, 1, last.ntok), Unit(QUOTE))
           ELSE /\ last.step = ParseArgs_next(cmd, after)
                /\ last.step.out # None => last.step.s.cursor >= c + 2
                /\ cmd[c + 1] = 97 =>
                       /\ last.step.out = 97
                       /\ last.step.s.cursor = c + 2
                       /\ last.step.s.quote_mode = ~p.quote_mode
                /\ cmd[c + 1] = 0 =>
                       /\ last.step.out = None
                       /\ last.step.s.cursor = c + 1
                       /\ last.step.s.quote_mode = ~p.quote_mode

\* Both kinds of quote in one argument: `"""` read as open, then a doubled quote.
C2_Witness ==
    /\ ReadsCursor
    /\ last.pre.quote_mode
    /\ cmd[last.pre.cursor] = QUOTE
    /\ cmd[last.pre.cursor + 1] = QUOTE
    /\ last.step.out = QUOTE

\* The sequence without its quote units.
RECURSIVE WithoutQuotes(_)
WithoutQuotes(us) ==
    IF us = << >> THEN << >>
    ELSE (IF Head(us) = QUOTE THEN << >> ELSE << Head(us) >>) \o WithoutQuotes(Tail(us))

\* How many units of the sequence equal w.
Count(us, w) == Cardinality({i \in 1..Len(us) : us[i] = w})

\* The tokens of the zeroth argument: those before the first NextArg.
Arg0Tokens == Head(split(null_separated_list_wide(tokens), 0))

\* C3: while the zeroth argument is parsed no escape run exists, the units
\* yielded are the raw text read so far with its quotes removed (every
\* backslash literal, every quote only a toggle), and quote mode is the
\* parity of the quotes read; so the zeroth argument never holds a quote and
\* holds every backslash of its raw text, in the token stream and in the
\* first handle alike.
C3_ZerothArgument ==
    /\ parser.is_arg0 =>
           LET raw == SubSeq(cmd, 1, parser.cursor - 1)
           IN /\ parser.escape_iter = NoEscape
              /\ null_separated_list_wide(tokens) = WithoutQuotes(raw)
              /\ parser.quote_mode = (Count(raw, QUOTE) % 2 = 1)
    /\ Count(Arg0Tokens, QUOTE) = 0
    /\ Len(handles) = 1 =>
           LET raw == SubSeq(cmd, 1, args.cursor - 1)
               body == utf16_units(cmd, handles[1])
           IN /\ handles[1].is_arg0
              /\ Count(body, QUOTE) = 0
              /\ Count(body, SLASH) = Count(raw, SLASH)

\* The zeroth argument `"\""a`: a backslash before a quote and a doubled quote
\* inside quotes, all read.
C3_Witness ==
    /\ parser.is_arg0
    /\ Len(cmd) = 6
    /\ SubSeq(cmd, 1, 5) = << QUOTE, SLASH, QUOTE, QUOTE, 97 >>
    /\ parser.cursor = 6
    /\ tokens = << Unit(SLASH), Unit(97) >>

\* The first position at or after p that holds neither SPACE nor TAB.
RECURSIVE AfterRun(_, _)
AfterRun(buf, p) == IF buf[p] \in {SPACE, TAB} THEN AfterRun(buf, p + 1) ELSE p

\* C4: a SPACE or TAB read outside quotes ends the argument: the step returns
\* end and leaves the cursor on it.  Parser then passes the whole maximal run
\* and yields exactly one NextArg for it when a unit follows, so a run never
\* yields an empty argument, and every later handle of ArgsNative starts on a
\* unit that is not whitespace, right after a run.  A SPACE or TAB read inside
\* quotes is yielded as a unit; no whitespace unit is yielded outside quotes.
C4_Whitespace ==
    /\ (last.called /\ ~pending(last.pre) /\ cmd[last.pre.cursor] \in {SPACE, TAB}) =>
           IF last.pre.quote_mode
           THEN /\ last.step.out = cmd[last.pre.cursor]
                /\ last.step.s.cursor = last.pre.cursor + 1
                /\ last.step.s.quote_mode
                /\ tokens = Append(SubSeq(tokens, 1, last.ntok), Unit(cmd[last.pre.cursor]))
           ELSE /\ last.step.out = None
                /\ last.step.s.cursor = last.pre.cursor
                /\ parser.cursor = AfterRun(cmd, last.pre.cursor)
                /\ tokens = IF cmd[parser.cursor] = 0
                            THEN SubSeq(tokens, 1, last.ntok)
                            ELSE Append(SubSeq(tokens, 1, last.ntok), NextArg)
    /\ (last.called /\ last.step.out = None) =>
           \/ cmd[last.step.s.cursor] = 0
           \/ cmd[last.step.s.cursor] \in {SPACE, TAB} /\ ~last.step.s.quote_mode
    /\ (last.called /\ last.step.out \in {SPACE, TAB}) =>
           /\ last.step.s.quote_mode
           /\ cmd[last.step.s.cursor - 1] = last.step.out
    /\ (tokens # << >> /\ tokens[Len(tokens)] = NextArg /\ Len(tokens) > last.ntok) =>
           /\ cmd[parser.cursor] \notin {SPACE, TAB, 0}
           /\ cmd[parser.cursor - 1] \in {SPACE, TAB}
    /\ \A i \in 2..Len(handles) :
           /\ cmd[handles[i].arg] \notin {SPACE, TAB, 0}
           /\ cmd[handles[i].arg - 1] \in {SPACE, TAB}

\* `a<SPACE><TAB><SPACE>a`: the run of three was read outside quotes and gave
\* one NextArg, and ArgsNative has yielded its two handles.
C4_Witness ==
    /\ Len(cmd) = 6
    /\ SubSeq(cmd, 1, 5) = << 97, SPACE, TAB, SPACE, 97 >>
    /\ tokens = << Unit(97), NextArg >>
    /\ last.pre.cursor = 2
    /\ parser.cursor = 5
    /\ Len(handles) = 2

\* A SPACE read in quote mode and yielded as a unit.
C4_WitnessQuoted ==
    /\ last.called
    /\ last.pre.quote_mode
    /\ cmd[last.pre.cursor] = SPACE
    /\ last.step.out = SPACE

\* C5: outside the zeroth argument a run of k >= 1 backslashes whose next unit
\* is not a quote yields exactly k backslashes and consumes nothing after the
\* run.
C5_PlainRun ==
    esc # NoRun =>
        LET k == RunLen(cmd, esc.start)
        IN cmd[esc.start + k] # QUOTE =>
            /\ ~parser.is_arg0
            /\ k >= 1
            /\ esc.out \o Undrained = Slashes(k)
            /\ Len(esc.out) <= Len(tokens)
            /\ LastTokens(Len(esc.out)) = Units(esc.out)
            /\ parser.cursor = esc.start + k
            /\ parser.quote_mode = esc.qm

\* A run of three backslashes before an 'a', drained.
C5_Witness ==
    /\ esc # NoRun
    /\ RunLen(cmd, esc.start) = 3
    /\ cmd[esc.start + 3] = 97
    /\ esc.out = << SLASH, SLASH, SLASH >>
    /\ ~pending(parser)

\* How many NextArg tokens the sequence holds.
NextArgs(toks) == Cardinality({i \in 1..Len(toks) : toks[i] = NextArg})

\* Both iterators have run to their end.
BothDone == parserDone /\ argsDone

\* C6 as stated: the token stream of Parser never ends with NextArg.
C6_NeverEndsWithNextArg ==
    parserDone => (tokens = << >> \/ tokens[Len(tokens)] # NextArg)

\* C6, amended: no NextArg is yielded after the final argument.  NextArg is
\* yielded only with the cursor on the first unit of a further argument, the
\* stream holds one NextArg less than there are arguments, and it ends with
\* NextArg exactly when there are two or more arguments and the final one has
\* an empty body.
C6_NoNextArgAfterFinal ==
    /\ (Len(tokens) > last.ntok /\ tokens[Len(tokens)] = NextArg) =>
           cmd[parser.cursor] \notin {0, SPACE, TAB}
    /\ (BothDone /\ handles # << >>) =>
           /\ NextArgs(tokens) = Len(handles) - 1
           /\ (tokens # << >> /\ tokens[Len(tokens)] = NextArg) <=>
                  (Len(handles) >= 2 /\ utf16_units(cmd, handles[Len(handles)]) = << >>)

\* A finished stream that ends with NextArg: the final argument is `""`.
C6_Witness ==
    /\ BothDone
    /\ tokens # << >>
    /\ tokens[Len(tokens)] = NextArg
    /\ Len(handles) = 2
    /\ raw_arg(cmd, handles[2]) = << QUOTE, QUOTE >>

\* C7: for a non-empty command line, splitting the null-separated units of
\* Parser on 0 gives the bodies of the handles of ArgsNative: as many, in the
\* same order, with the same units.
C7_SplitEqualsArguments ==
    (BothDone /\ cmd[1] # 0) =>
        split(null_separated_list_wide(tokens), 0) = bodies(cmd, handles)

\* Three arguments: an empty zeroth, a literal quote, an 'a'.
C7_Witness ==
    /\ BothDone
    /\ Len(handles) = 3
    /\ bodies(cmd, handles) = << << >>, << QUOTE >>, << 97 >> >>

\* C8 as stated: arguments = NextArg tokens + 1 if Parser yielded a Unit.
C8_CountByUnits ==
    BothDone =>
        Len(handles) = NextArgs(tokens)
                       + (IF \E i \in 1..Len(tokens) : tokens[i].tag = "Unit" THEN 1 ELSE 0)

\* C8, amended: arguments = NextArg tokens + 1 if the command line is not
\* empty (its first unit is not the terminating zero), + 0 if it is.
C8_CountByInput ==
    BothDone =>
        Len(handles) = NextArgs(tokens) + (IF cmd[1] # 0 THEN 1 ELSE 0)

\* A command line of whitespace only: one (empty) argument, no token at all.
C8_Witness ==
    /\ BothDone
    /\ cmd = << SPACE, TAB, 0 >>
    /\ Len(handles) = 1
    /\ tokens = << >>

\* C9 as stated: in every state of Parser the upper bound of size_hint is at
\* least the number of tokens Parser will still yield.
C9_SizeHintBoundsRest ==
    size_hint(cmd, parser).upper >= Len(Parser_collect(cmd, parser))

\* The command line without its last k units, terminated.
Trimmed(k) == Append(SubSeq(cmd, 1, Len(cmd) - 1 - k), 0)

\* The command line is some input x followed by k >= 1 SPACE/TAB units that
\* lie outside quotes: Parser run over x alone ends with quote mode off.
TrailingRun(k) ==
    /\ k \in 1..(Len(cmd) - 1)
    /\ \A i \in (Len(cmd) - k)..(Len(cmd) - 1) : cmd[i] \in {SPACE, TAB}
    /\ ~Parser_final(Trimmed(k), ParseArgs_from_env).quote_mode

\* The runs over x agree with the runs over the whole command line.
SameAsTrimmed(k) ==
    /\ tokens = Parser_collect(Trimmed(k), ParseArgs_from_env)
    /\ handles = ArgsNative_collect(Trimmed(k), ParseArgs_from_env)
    /\ bodies(cmd, handles) = bodies(Trimmed(k), handles)

\* C10 as stated: for every input, SPACE/TAB appended outside quotes change
\* neither the arguments of ArgsNative nor the tokens of Parser.
C10_TrailingWhitespaceAnyInput ==
    BothDone => \A k \in 1..MaxLen : TrailingRun(k) => SameAsTrimmed(k)

\* C10, amended: for every non-empty input.
C10_TrailingWhitespace ==
    BothDone =>
        \A k \in 1..MaxLen : (TrailingRun(k) /\ Trimmed(k) # << 0 >>) => SameAsTrimmed(k)

\* `a "a"` followed by SPACE and TAB: two arguments, one NextArg.
C10_Witness ==
    /\ BothDone
    /\ cmd = << 97, SPACE, QUOTE, 97, QUOTE, TAB, 0 >> \/ cmd = << 97, SPACE, 97, SPACE, TAB, 0 >>
    /\ TrailingRun(1)
    /\ Len(handles) = 2
    /\ tokens = << Unit(97), NextArg, Unit(97) >>

\* C11: a command line that begins with SPACE or TAB has an empty zeroth
\* argument: the first handle is the zeroth one with no units, and the first
\* token of Parser, if there is one, is NextArg (there is one when a unit
\* follows the whitespace).  What follows the leading run is parsed with
\* is_arg0 off: the second handle starts right after the run, no later handle
\* is a zeroth one, and the tokens after the first are those of a parser
\* started there with the rules of a later argument.
C11_LeadingWhitespace ==
    cmd[1] \in {SPACE, TAB} =>
        LET start == AfterRun(cmd, 1)
        IN /\ handles # << >> =>
                  /\ handles[1] = [arg |-> 1, is_arg0 |-> TRUE]
                  /\ utf16_units(cmd, handles[1]) = << >>
           /\ \A i \in 2..Len(handles) : ~handles[i].is_arg0
           /\ Len(handles) >= 2 => handles[2].arg = start
           /\ tokens # << >> => tokens[1] = NextArg
           /\ (last.called /\ cmd[start] # 0) => tokens # << >>
           /\ last.called => ~parser.is_arg0
           /\ parserDone =>
                  tokens = (IF cmd[start] # 0 THEN << NextArg >> ELSE << >>)
                           \o Parser_collect(cmd, ParseArgs_new(start, FALSE))

\* `<SPACE>\""`: empty zeroth argument, then an escaped quote and a quote that
\* opens quote mode, read with the rules of a later argument.
C11_Witness ==
    /\ cmd = << SPACE, SLASH, QUOTE, QUOTE, 0 >>
    /\ BothDone
    /\ tokens = << NextArg, Unit(QUOTE) >>
    /\ Len(handles) = 2

\* ArgsNative::next has been called at least once.
ArgsCalled == argsDone \/ args # ParseArgs_from_env \/ handles # << >>

\* C12: the empty command line yields no argument and no token; every other
\* command line yields at least one argument, with the first call already.
C12_EmptyCommandLine ==
    /\ cmd[1] = 0 =>
           /\ handles = << >>
           /\ tokens = << >>
           /\ last.called => parserDone
           /\ ArgsCalled => argsDone
    /\ (cmd[1] # 0 /\ ArgsCalled) => Len(handles) >= 1

\* The empty command line, both iterators called and at their end.
C12_Witness ==
    /\ cmd = << 0 >>
    /\ BothDone
    /\ last.called
    /\ handles = << >>
    /\ tokens = << >>

\* C13: ParseArgs::next never yields 0, so every Unit token holds a nonzero
\* 16-bit unit and as_u16 is 0 for NextArg only.
C13_UnitNonzero ==
    /\ last.step.out # 0
    /\ \A i \in 1..Len(tokens) :
           /\ tokens[i].tag = "Unit" => tokens[i].unit \in 1..(U16 - 1)
           /\ as_u16(tokens[i]) = 0 <=> tokens[i] = NextArg

\* A finished stream with Unit and NextArg tokens.
C13_Witness ==
    /\ parserDone
    /\ tokens = << Unit(97), NextArg, Unit(SLASH), Unit(97) >>

\* C14: for a non-empty command line, once the tokens up to and including
\* the first NextArg are consumed, the rest mapped through as_u16 and split on
\* 0 is the bodies of the arguments after the zeroth; with a zeroth argument
\* only, nothing is left.
C14_SkipZeroth ==
    (BothDone /\ cmd[1] # 0) =>
        IF Len(handles) >= 2
        THEN split(null_separated_list_wide(skip_zeroth(tokens)), 0)
                 = bodies(cmd, Tail(handles))
        ELSE skip_zeroth(tokens) = << >>

\* `aa "" a`-like line: three arguments, the middle one empty.
C14_Witness ==
    /\ BothDone
    /\ Len(handles) = 3
    /\ skip_zeroth(tokens) = << NextArg, Unit(97) >>

\* Only a zeroth argument: nothing is left after it.
C14_WitnessZerothOnly ==
    /\ BothDone
    /\ Len(handles) = 1
    /\ tokens = << Unit(97), Unit(97) >>

\* a is the tail of b.
IsSuffix(a, b) ==
    /\ Len(a) <= Len(b)
    /\ a = SubSeq(b, Len(b) - Len(a) + 1, Len(b))

\* C16: raw_arg of a handle is the buffer from the handle's cursor up to the
\* terminating zero: the whole command line for the zeroth handle; for a later
\* handle it is non-empty, starts with a unit that is neither SPACE nor TAB
\* and is a proper suffix of the raw tail of the handle before.
C16_RawArg ==
    \A i \in 1..Len(handles) :
        LET raw == raw_arg(cmd, handles[i])
        IN /\ raw = SubSeq(cmd, handles[i].arg, Len(cmd) - 1)
           /\ i = 1 => raw = SubSeq(cmd, 1, Len(cmd) - 1)
           /\ i > 1 =>
                  LET prev == raw_arg(cmd, handles[i - 1])
                  IN /\ raw # << >>
                     /\ raw[1] \notin {SPACE, TAB}
                     /\ Len(raw) < Len(prev)
                     /\ IsSuffix(raw, prev)

\* `a<TAB>" a`: the second handle's raw tail is `" a`, quote included.
C16_Witness ==
    /\ cmd = << 97, TAB, QUOTE, SPACE, 97, 0 >>
    /\ argsDone
    /\ Len(handles) = 2
    /\ raw_arg(cmd, handles[2]) = << QUOTE, SPACE, 97 >>

\* A backslash at i whose run reaches a quote or the end of b.
RECURSIVE BeforeQuoteOrEnd(_, _)
BeforeQuoteOrEnd(b, i) ==
    IF i > Len(b) THEN TRUE
    ELSE IF b[i] = SLASH THEN BeforeQuoteOrEnd(b, i + 1)
    ELSE b[i] = QUOTE

\* The reverse rules applied to the units of b from i on.
RECURSIVE QuoteFrom(_, _)
QuoteFrom(b, i) ==
    IF i > Len(b) THEN << >>
    ELSE (IF b[i] = QUOTE THEN << SLASH, QUOTE >>
          ELSE IF b[i] = SLASH /\ BeforeQuoteOrEnd(b, i) THEN << SLASH, SLASH >>
          ELSE << b[i] >>)
         \o QuoteFrom(b, i + 1)

\* b enclosed in quotes, its quotes escaped, the backslash runs before a
\* quote or before the closing quote doubled.
Quoted(b) == << QUOTE >> \o QuoteFrom(b, 1) \o << QUOTE >>

\* The argument bodies of the command line with the given units.
Reparsed(units) ==
    LET line == units \o << 0 >>
    IN bodies(line, ArgsNative_collect(line, ParseArgs_from_env))

\* C17 as claimed: the quoted form of the body of the handle yielded last
\* (each handle in its turn, Parser not yet stepped), taken as the whole
\* command line, parses to one argument with the units of the body.
C17_RoundTripAlone ==
    (handles # << >> /\ ~last.called) =>
        LET b == utf16_units(cmd, handles[Len(handles)])
        IN Reparsed(Quoted(b)) = << b >>

\* C17: the quoted form of the body of the handle yielded last (each handle
\* in its turn, Parser not yet stepped), placed after a zeroth argument and whitespace, parses to one further argument with the units of
\* the body.
C17_RoundTripAfterZeroth ==
    (handles # << >> /\ ~last.called) =>
        LET b == utf16_units(cmd, handles[Len(handles)])
        IN Reparsed(<< 97, SPACE >> \o Quoted(b)) = << << 97 >>, b >>

\* `<SPACE>\"\`: the second body is a quote and a trailing backslash, both
\* of which the reverse rules escape.
C17_Witness ==
    /\ cmd = << SPACE, SLASH, QUOTE, SLASH, 0 >>
    /\ argsDone
    /\ ~last.called
    /\ Len(handles) = 2
    /\ utf16_units(cmd, handles[2]) = << QUOTE, SLASH >>
    /\ Quoted(<< QUOTE, SLASH >>) = << QUOTE, SLASH, QUOTE, SLASH, SLASH, QUOTE >>

\* No backslash, no quote and no surrogate before the terminating zero.
Plain(buf) ==
    \A i \in 1..(Len(buf) - 1) : buf[i] \notin {SLASH, QUOTE} /\ ~is_surrogate(buf[i])

\* The maximal runs of units that are neither SPACE nor TAB, from i on, word
\* being the run in progress.
RECURSIVE NaiveSplitFrom(_, _, _)
NaiveSplitFrom(us, i, word) ==
    LET done == IF word = << >> THEN << >> ELSE << word >>
    IN IF i > Len(us) THEN done
       ELSE IF us[i] \in {SPACE, TAB} THEN done \o NaiveSplitFrom(us, i + 1, << >>)
       ELSE NaiveSplitFrom(us, i + 1, Append(word, us[i]))

NaiveSplit(us) == NaiveSplitFrom(us, 1, << >>)

\* C18 as claimed: without backslashes, quotes and surrogates the arguments
\* are the whitespace split of the input.
C18_NaiveSplit ==
    (argsDone /\ Plain(cmd)) =>
        bodies(cmd, handles) = NaiveSplit(SubSeq(cmd, 1, Len(cmd) - 1))

\* C18: without backslashes, quotes and surrogates the arguments are the
\* whitespace split of the input, preceded by an empty zeroth argument when
\* the input begins with SPACE or TAB.
C18_NaiveSplitAfterZeroth ==
    (argsDone /\ Plain(cmd)) =>
        bodies(cmd, handles)
            = (IF cmd[1] \in {SPACE, TAB} THEN << << >> >> ELSE << >>)
              \o NaiveSplit(SubSeq(cmd, 1, Len(cmd) - 1))

\* `a<SPACE><TAB>a<TAB>`: a run of two separators and a trailing one.
C18_Witness ==
    /\ cmd = << 97, SPACE, TAB, 97, TAB, 0 >>
    /\ argsDone
    /\ bodies(cmd, handles) = << << 97 >>, << 97 >> >>

\* The length of the backslash run that ends at i.
RECURSIVE RunBefore(_, _)
RunBefore(buf, i) ==
    IF i >= 1 /\ buf[i] = SLASH THEN 1 + RunBefore(buf, i - 1) ELSE 0

\* Where the zeroth argument ends: the first SPACE or TAB with an even number
\* of quotes before it, or the terminating zero.
Arg0End(buf) ==
    CHOOSE p \in 1..Len(buf) :
        LET ends(q) == \/ buf[q] = 0
                       \/ /\ buf[q] \in {SPACE, TAB}
                          /\ ~is_odd(Count(SubSeq(buf, 1, q - 1), QUOTE))
        IN ends(p) /\ \A q \in 1..(p - 1) : ~ends(q)

\* The quotes that an odd backslash run does not turn into a literal; in the
\* zeroth argument no quote is turned into a literal.
UnescapedQuotes(buf) ==
    { i \in 1..Len(buf) :
        /\ buf[i] = QUOTE
        /\ ~(i > Arg0End(buf) /\ is_odd(RunBefore(buf, i - 1))) }

\* C19: when Parser has come to its end, quote mode is on exactly when the
\* input holds an odd number of unescaped quotes.
C19_QuoteParity ==
    parserDone => parser.quote_mode = is_odd(Cardinality(UnescapedQuotes(cmd)))

\* `a "\"`: one unescaped quote and one escaped: the run ends inside quotes.
C19_Witness ==
    /\ cmd = << 97, SPACE, QUOTE, SLASH, QUOTE, 0 >>
    /\ parserDone
    /\ parser.quote_mode
    /\ Cardinality(UnescapedQuotes(cmd)) = 1

\* `"""`-like line after a zeroth argument: a doubled quote inside quotes
\* leaves the parity as three plain quotes would.
C19_WitnessDoubled ==
    /\ cmd = << 97, SPACE, QUOTE, QUOTE, QUOTE, 0 >>
    /\ parserDone
    /\ parser.quote_mode
    /\ tokens = << Unit(97), NextArg, Unit(QUOTE) >>

\* The units that are not SPACE, TAB, quote or backslash, in order.
Ordinary(us) == SelectSeq(us, LAMBDA w : w \notin {SPACE, TAB, QUOTE, SLASH})

\* The part of the buffer that the i-th handle's argument was read from, up
\* to where the next argument starts.
Span(i) ==
    SubSeq(cmd, handles[i].arg,
           (IF i < Len(handles) THEN handles[i + 1].arg ELSE args.cursor) - 1)

\* The unit at j is a surrogate with no partner next to it in us.
Isolated(us, j) ==
    /\ is_surrogate(us[j])
    /\ ~(is_leading(us[j]) /\ j < Len(us) /\ is_trailing(us[j + 1]))
    /\ ~(is_trailing(us[j]) /\ j > 1 /\ is_leading(us[j - 1]))

\* The isolated surrogates of us from j on, in order.
RECURSIVE IsolatedFrom(_, _)
IsolatedFrom(us, j) ==
    IF j > Len(us) THEN << >>
    ELSE (IF Isolated(us, j) THEN << us[j] >> ELSE << >>) \o IsolatedFrom(us, j + 1)

\* UTF-16 of a sequence of code points, surrogate values as single units.
RECURSIVE Encoded(_)
Encoded(cps) ==
    IF cps = << >> THEN << >>
    ELSE (IF cps[1] >= 65536
          THEN << 55296 + ((cps[1] - 65536) \div 1024),
                  56320 + ((cps[1] - 65536) % 1024) >>
          ELSE << cps[1] >>)
         \o Encoded(Tail(cps))

\* Every ordinary unit of the argument's part of the input is in the units
\* view once, unchanged and in order.
OrdinaryPassThrough(i) ==
    Ordinary(utf16_units(cmd, handles[i])) = Ordinary(Span(i))

\* C20 as claimed: ordinary units pass through, and each surrogate isolated
\* in the input is U+FFFD in the scalars view and itself in the code-points
\* view.
C20_IsolatedInInput ==
    \A i \in 1..Len(handles) :
        /\ OrdinaryPassThrough(i)
        /\ Count(scalars(cmd, handles[i]), REPLACEMENT_CHARACTER)
               = Len(IsolatedFrom(Span(i), 1))
        /\ SelectSeq(code_points(cmd, handles[i]), is_surrogate)
               = IsolatedFrom(Span(i), 1)

\* C20: ordinary units pass through; each surrogate isolated in the units of
\* the argument is U+FFFD in the scalars view and itself in the code-points
\* view, the two views agreeing everywhere else, and the code points encode
\* back to the units.
C20_IsolatedInUnits ==
    \A i \in 1..Len(handles) :
        LET us == utf16_units(cmd, handles[i])
            sc == scalars(cmd, handles[i])
            cp == code_points(cmd, handles[i])
        IN /\ OrdinaryPassThrough(i)
           /\ Count(sc, REPLACEMENT_CHARACTER) = Len(IsolatedFrom(us, 1))
           /\ SelectSeq(cp, is_surrogate) = IsolatedFrom(us, 1)
           /\ Len(sc) = Len(cp)
           /\ \A k \in 1..Len(cp) :
                  sc[k] = IF is_surrogate(cp[k]) THEN REPLACEMENT_CHARACTER ELSE cp[k]
           /\ Encoded(cp) = us

\* A trailing and a leading surrogate in the wrong order, then `a`.
C20_Witness ==
    /\ cmd = << 56837, 55357, 97, 0 >>
    /\ argsDone
    /\ Len(handles) = 1
    /\ scalars(cmd, handles[1]) = << REPLACEMENT_CHARACTER, REPLACEMENT_CHARACTER, 97 >>
    /\ code_points(cmd, handles[1]) = << 56837, 55357, 97 >>

\* The two halves of U+1F605 with `""` between them: isolated in the input,
\* a pair in the units.
C20_WitnessJoined ==
    /\ cmd = << 55357, QUOTE, QUOTE, 56837, 0 >>
    /\ argsDone
    /\ utf16_units(cmd, handles[1]) = << 55357, 56837 >>
    /\ scalars(cmd, handles[1]) = << 128517 >>

\* C15: no counting loop overflows: no build panics, while counting the
\* counter is the number of units counted so far, and at the end EscapeIter
\* holds the backslashes to emit (all n of the run, or n / 2 and a literal
\* quote for odd n before a quote) and max_len is the number of units of the
\* buffer.
C15_CountersExact ==
    /\ count.pc # "panic"
    /\ (count.job = "slashes" /\ count.pc = "loop") => count.counter = count.ptr - 2
    /\ (count.job = "len" /\ count.pc = "loop") => count.counter = count.ptr - 1
    /\ (count.job = "slashes" /\ count.pc = "done") =>
           /\ count.counter = IF count.quoted THEN count.n \div 2 ELSE count.n
           /\ count.mode = "LiteralQuote" <=> (count.quoted /\ is_odd(count.n))
    /\ (count.job = "len" /\ count.pc = "done") => count.counter = count.n

\* The tokens after the last NextArg.
RECURSIVE FinalTokens(_)
FinalTokens(toks) ==
    IF toks = << >> \/ toks[Len(toks)] = NextArg THEN << >>
    ELSE Append(FinalTokens(SubSeq(toks, 1, Len(toks) - 1)), toks[Len(toks)])

\* C21: no cursor is behind the terminating zero, the units a call moved the
\* cursor over are nonzero, and a step that returns end with quote mode on
\* does so at the terminating zero only: with a quote left open, Parser ends
\* in quote mode at the end of the buffer and the units after the last
\* NextArg are the final argument.
C21_CursorWithinBuffer ==
    /\ parser.cursor \in 1..Len(cmd)
    /\ args.cursor \in 1..Len(cmd)
    /\ last.pre.cursor \in 1..Len(cmd)
    /\ last.step.s.cursor \in 1..Len(cmd)
    /\ \A i \in 1..Len(handles) : handles[i].arg \in 1..(Len(cmd) - 1)
    /\ \A q \in last.pre.cursor..(parser.cursor - 1) : cmd[q] # 0
    /\ (last.called /\ last.step.out = None /\ last.step.s.quote_mode) =>
           cmd[last.step.s.cursor] = 0
    /\ (parserDone /\ parser.quote_mode) => cmd[parser.cursor] = 0
    /\ (BothDone /\ parser.quote_mode) =>
           /\ handles # << >>
           /\ FinalTokens(tokens) = Units(utf16_units(cmd, handles[Len(handles)]))

\* `a "a<SPACE>`: the quote is never closed, the final argument is `a<SPACE>`.
C21_Witness ==
    /\ cmd = << 97, SPACE, QUOTE, 97, SPACE, 0 >>
    /\ BothDone
    /\ parser.quote_mode
    /\ parser.cursor = 6
    /\ tokens = << Unit(97), NextArg, Unit(97), Unit(SPACE) >>

\* C22: when move_to_next_arg has returned short of the end of the buffer,
\* the parser is what ParseArgs::new makes of its cursor with is_arg0 off,
\* and the cursor is on a unit that is neither SPACE nor TAB; so the parser
\* of ArgsNative is always the sub-parser of the handle it yields next, and
\* Parser after its k-th NextArg is the sub-parser of handle k + 1.
C22_FreshAtArgumentStart ==
    /\ (handles # << >> /\ ~at_end(cmd, args)) =>
           /\ args = ParseArgs_new(args.cursor, FALSE)
           /\ cmd[args.cursor] \notin {SPACE, TAB}
    /\ (last.called /\ last.step.out = None /\ ~at_end(cmd, parser)) =>
           /\ parser = ParseArgs_new(parser.cursor, FALSE)
           /\ cmd[parser.cursor] \notin {SPACE, TAB}
           /\ Len(handles) > NextArgs(tokens) =>
                  LET h == handles[NextArgs(tokens) + 1]
                  IN /\ parser = ParseArgs_new(h.arg, h.is_arg0)
                     /\ collect_units(cmd, parser) = utf16_units(cmd, h)
    /\ ~at_end(cmd, args) => args = ParseArgs_new(args.cursor, args.is_arg0)

\* `"a "<TAB>a`: the first argument ends after a closed quote; both parsers
\* have moved on to the second.
C22_Witness ==
    /\ cmd = << QUOTE, SPACE, QUOTE, TAB, 97, 0 >>
    /\ Len(handles) = 2
    /\ ~argsDone
    /\ tokens = << Unit(SPACE), NextArg >>
    /\ parser = ParseArgs_new(5, FALSE)

\* The parser at the start of argument k: move_to_next_arg k times from the
\* new parser.
RECURSIVE ArgumentStart(_)
ArgumentStart(k) ==
    IF k = 0 THEN ParseArgs_from_env
    ELSE move_to_next_arg(cmd, ArgumentStart(k - 1))

\* C23: wherever Parser stands in the current argument (at its start, after
\* any number of its units, in the middle of an escape run, after its last
\* unit), move_to_next_arg leads to the state it leads to from the
\* argument's start: same cursor, same quote mode, no escape run, is_arg0
\* off.
C23_MoveFromAnywhere ==
    ~parserDone =>
        LET moved == move_to_next_arg(cmd, parser)
            whole == move_to_next_arg(cmd, ArgumentStart(NextArgs(tokens)))
        IN /\ moved = whole
           /\ moved.escape_iter = NoEscape
           /\ ~moved.is_arg0
           /\ (~last.called \/ last.step.out = None) =>
                  parser = ArgumentStart(NextArgs(tokens))

\* `<SPACE>"\\\`: Parser stands in the second argument, inside quotes, with
\* one of three backslashes yielded and two pending.
C23_Witness ==
    /\ cmd = << SPACE, QUOTE, SLASH, SLASH, SLASH, 0 >>
    /\ tokens = << NextArg, Unit(SLASH) >>
    /\ pending(parser)
    /\ move_to_next_arg(cmd, parser).quote_mode
    /\ move_to_next_arg(cmd, parser).cursor = 6

\* The escape run of s still holds a backslash or its literal quote.
NonEmptyRun(s) ==
    /\ s.escape_iter # NoEscape
    /\ s.escape_iter[1].counter > 0 \/ s.escape_iter[1].mode = "LiteralQuote"

\* C24: a step taken with a non-empty escape run yields the run's next unit
\* (its backslashes first, its literal quote last) as the one new token,
\* takes that unit off the run and leaves cursor, quote mode and is_arg0 as
\* they were; so a step that moves the cursor starts with the run empty.
C24_DrainBeforeRead ==
    /\ (last.called /\ NonEmptyRun(last.pre)) =>
           LET e == last.pre.escape_iter[1]
           IN /\ last.step.out = IF e.counter > 0 THEN SLASH ELSE QUOTE
              /\ parser = last.step.s
              /\ tokens = Append(SubSeq(tokens, 1, last.ntok), Unit(last.step.out))
              /\ parser.cursor = last.pre.cursor
              /\ parser.quote_mode = last.pre.quote_mode
              /\ parser.is_arg0 = last.pre.is_arg0
              /\ parser.escape_iter =
                     << IF e.counter > 0
                        THEN [e EXCEPT !.counter = e.counter - 1]
                        ELSE [e EXCEPT !.mode = "Unescaped"] >>
    /\ (last.called /\ parser.cursor # last.pre.cursor) => ~NonEmptyRun(last.pre)

\* `<TAB>\\\"`: the step that yields the literal quote, the last unit of
\* the run of one backslash and a quote, with the cursor at rest on the zero.
C24_Witness ==
    /\ cmd = << TAB, SLASH, SLASH, SLASH, QUOTE, 0 >>
    /\ last.called
    /\ NonEmptyRun(last.pre)
    /\ last.pre.escape_iter[1] = [counter |-> 0, mode |-> "LiteralQuote"]
    /\ tokens = << NextArg, Unit(SLASH), Unit(QUOTE) >>
    /\ parser.cursor = 6

\* Parser has called move_to_next_arg: it has yielded a NextArg or come to
\* its end.
ParserMoved == NextArgs(tokens) > 0 \/ parserDone

\* The flags at rest: is_arg0 is on exactly until the first move_to_next_arg,
\* the first handle is the only zeroth one, and a step is taken with is_arg0
\* on exactly when no move came before it.
ZerothFlags ==
    /\ parser.is_arg0 <=> ~ParserMoved
    /\ args.is_arg0 <=> handles = << >>
    /\ \A i \in 1..Len(handles) : handles[i].is_arg0 <=> i = 1
    /\ (last.called /\ last.pre.is_arg0) =>
           NextArgs(SubSeq(tokens, 1, last.ntok)) = 0
    /\ (last.called /\ ~last.pre.is_arg0) =>
           NextArgs(SubSeq(tokens, 1, last.ntok)) > 0 \/ parserDone
    /\ ParseArgs_from_env.is_arg0

\* Once off, is_arg0 stays off.
ZerothStaysOff ==
    /\ ~parser.is_arg0 => ~parser.is_arg0'
    /\ ~args.is_arg0 => ~args.is_arg0'

\* C25: is_arg0 is on from construction to the first move_to_next_arg and off
\* ever after; the first handle alone has is_arg0 on, and only the steps
\* before the first move run with is_arg0 on.
C25_ZerothFlag == [](ZerothFlags) /\ [][ZerothStaysOff]_vars

\* `\<SPACE>\"`: the first argument is a backslash, read with is_arg0 on;
\* the second, read with is_arg0 off, is a literal quote.
C25_Witness ==
    /\ cmd = << SLASH, SPACE, SLASH, QUOTE, 0 >>
    /\ BothDone
    /\ tokens = << Unit(SLASH), NextArg, Unit(QUOTE) >>
    /\ handles = << [arg |-> 1, is_arg0 |-> TRUE], [arg |-> 3, is_arg0 |-> FALSE] >>

\* No call moves a cursor back.
CursorsForward ==
    /\ parser.cursor' >= parser.cursor
    /\ args.cursor' >= args.cursor

\* What is left for the parser s to yield at most: two for each unit from
\* the cursor to the terminating zero, one for each unit of the escape run.
Variant(s) ==
    2 * (Len(cmd) - s.cursor)
    + (IF s.escape_iter = NoEscape THEN 0
       ELSE s.escape_iter[1].counter
            + (IF s.escape_iter[1].mode = "LiteralQuote" THEN 1 ELSE 0))

\* A call of Parser::next yields one token and lowers the variant, or it
\* returns end-of-stream; a call of ArgsNative::next yields one handle and
\* moves the cursor on, or it returns end-of-stream.
CallsProgress ==
    /\ << parser, tokens, parserDone, last >> # << parser', tokens', parserDone', last' >> =>
           \/ /\ Len(tokens') = Len(tokens) + 1
              /\ Variant(parser') < Variant(parser)
              /\ ~parserDone'
           \/ /\ tokens' = tokens
              /\ parserDone'
    /\ << args, handles, argsDone >> # << args', handles', argsDone' >> =>
           \/ /\ Len(handles') = Len(handles) + 1
              /\ args.cursor' > args.cursor
              /\ ~argsDone'
           \/ /\ handles' = handles
              /\ args' = args
              /\ argsDone'

\* No more tokens and no more arguments than the input has units, and the
\* variant is a natural number.
WithinInputLength ==
    /\ Len(tokens) <= Len(cmd) - 1
    /\ Len(handles) <= Len(cmd) - 1
    /\ Variant(parser) >= 0
    /\ args.cursor <= Len(cmd)

\* C26: the cursors only move forward; every call either yields and lowers a
\* natural-number variant or returns end-of-stream, so the calls that yield
\* are finitely many; Parser yields at most as many tokens and ArgsNative at
\* most as many arguments as the input has units.
C26_ForwardAndFinite ==
    /\ [][CursorsForward /\ CallsProgress]_vars
    /\ [](WithinInputLength)

\* `a a a`: as many arguments as five units allow, the token stream as long
\* as the input.
C26_Witness ==
    /\ cmd = << 97, SPACE, 97, SPACE, 97, 0 >>
    /\ BothDone
    /\ Len(tokens) = 5
    /\ Len(handles) = 3
    /\ parser.cursor = 6
    /\ args.cursor = 6

\* At the end a further call returns None and changes nothing, and the
\* cursor is on the terminating zero.
EndAtRest ==
    /\ parserDone =>
           /\ Parser_next(cmd, parser) = [s |-> parser, out |-> NoToken]
           /\ cmd[parser.cursor] = 0
    /\ argsDone =>
           /\ ArgsNative_next(cmd, args) = [s |-> args, out |-> NoArgument]
           /\ cmd[args.cursor] = 0

\* Calls after the end yield nothing and leave the end in place.
EndStays ==
    /\ parserDone => parserDone' /\ tokens' = tokens /\ parser' = parser
    /\ argsDone => argsDone' /\ handles' = handles /\ args' = args

\* C27: once Parser::next has returned None, every later call returns None,
\* and so for ArgsNative::next; the cursor stays on the terminating zero.
C27_EndAbsorbing == [](EndAtRest) /\ [][EndStays]_vars

\* `a "`: both iterators at their end, quote mode left on, and Parser::next
\* called once more after its first None.
C27_Witness ==
    /\ cmd = << 97, SPACE, QUOTE, 0 >>
    /\ BothDone
    /\ last.pre = parser
    /\ last.step.out = None
    /\ tokens = << Unit(97), NextArg >>
    /\ Len(handles) = 2

====
